---- MODULE Spec2Model ----
(***************************************************************************)
(* Model of Honeypot.py: a single-threaded TCP decoy.  start_honeypot      *)
(* accepts one connection at a time, filters it on its source IP, reads    *)
(* one payload, looks the IP up, classifies the payload, writes the event  *)
(* to a JSON-lines file and to the sqlite table logs, answers suspicious   *)
(* payloads with a fixed line and closes the socket.                       *)
(*                                                                         *)
(* Text and bytes are sequences of one-character strings, so that          *)
(* decode/strip/re.search are computed rather than assumed.                *)
(***************************************************************************)
EXTENDS Integers, Sequences, FiniteSets, TLC

(* ---------------- bounds of the model ---------------- *)

\* number of connection attempts made by the environment
NumConns == 2

(* ---------------- program constants ---------------- *)

\* client.recv(2048)
RECV_BUFSIZE == 2048

Conns == 1..NumConns

\* source addresses the environment connects from
IPs == {"10.0.0.1", "10.0.0.2"}

\* the addresses an operator may have put in BLACKLIST_IPS / WHITELIST_IPS
ListableIPs == {"10.0.0.1"}

\* the ephemeral source port of the c-th connection
EphemeralPort(c) == 40000 + c

\* a byte that is not valid UTF-8
BAD == "\\xff"

Whitespace == {" ", "\n", "\t", "\r"}

(* ---------------- text helpers ---------------- *)

\* bytes.decode(errors='ignore'): undecodable bytes are dropped
Decode(bytes) == SelectSeq(bytes, LAMBDA b : b # BAD)

RECURSIVE LStrip(_)
LStrip(s) == IF s # <<>> /\ Head(s) \in Whitespace THEN LStrip(Tail(s)) ELSE s

RECURSIVE RStrip(_)
RStrip(s) ==
    IF s # <<>> /\ s[Len(s)] \in Whitespace THEN RStrip(SubSeq(s, 1, Len(s) - 1)) ELSE s

\* str.strip()
Strip(s) == RStrip(LStrip(s))

\* socket.recv(bufsize): at most bufsize bytes of what the peer sent
Recv(sent, bufsize) == SubSeq(sent, 1, IF Len(sent) < bufsize THEN Len(sent) ELSE bufsize)

\* case folding done by re.IGNORECASE, on the letters the payloads use
LowerChar(ch) ==
    CASE ch = "S" -> "s"
      [] ch = "H" -> "h"
      [] ch = "N" -> "n"
      [] ch = "C" -> "c"
      [] ch = "L" -> "l"
      [] ch = "E" -> "e"
      [] OTHER -> ch

Lower(s) == [i \in 1..Len(s) |-> LowerChar(s[i])]

\* does word occur in text at some position (re.search scans every offset)
Occurs(word, text) ==
    \E i \in 1..(Len(text) - Len(word) + 1) : SubSeq(text, i, i + Len(word) - 1) = word

\* SUSPICIOUS_PATTERNS: each pattern is an alternation of literal words; the
\* trailing ".*" of three of them matches the empty string, so a pattern is
\* found exactly when one of its words occurs
SUSPICIOUS_PATTERNS ==
    << { <<"s","e","l","e","c","t">>, <<"u","n","i","o","n">>, <<"i","n","s","e","r","t">>,
         <<"d","r","o","p">>, <<"d","e","l","e","t","e">>, <<"u","p","d","a","t","e">> },
       { <<"c","m","d">>, <<"p","o","w","e","r","s","h","e","l","l">>,
         <<"b","a","s","h">>, <<"s","h">> },
       { <<".",".","/">>, <<"%","2","e","%","2","e","/">> },
       { <<"w","g","e","t">>, <<"c","u","r","l">>, <<"n","c">>, <<"n","c","a","t">>,
         <<"t","e","l","n","e","t">> } >>

\* re.search(pattern, data, re.IGNORECASE)
Search(pattern, data) == \E w \in pattern : Occurs(w, Lower(data))

\* faulty variant: a pattern with an empty alternative, which is found in any text
is_suspicious_EmptyAlternative(data) ==
    \E k \in 1..Len(SUSPICIOUS_PATTERNS) :
        Search(SUSPICIOUS_PATTERNS[k] \cup { <<>> }, data)

is_suspicious(data) ==
    \E k \in 1..Len(SUSPICIOUS_PATTERNS) : Search(SUSPICIOUS_PATTERNS[k], data)

\* int(suspicious)
IntOfBool(b) == IF b THEN 1 ELSE 0

(* ---------------- environment ---------------- *)

\* what a peer may put on the wire before the server reads
Payloads ==
    { <<"l", "s">>,                 \* benign text
      <<"S", BAD, "H", "\n">>,      \* "SH" once decoded and stripped
      <<" ">> }                     \* whitespace only

\* what a peer does after connecting
Peers ==
    [kind : {"send"}, bytes : Payloads]
        \cup { [kind |-> k, bytes |-> <<>>] : k \in {"close", "reset", "stall"} }

\* conns[c].peer before recv has seen what the peer does
NoPeer == [kind |-> "none", bytes |-> <<>>]

\* JSON bodies ip-api.com may answer with, as the keys present and their values
FailResp == [status |-> "fail"]
MixedResp == [status |-> "success", country |-> "US", city |-> ""]
Responses == {FailResp, MixedResp}

\* dict.get(key, default)
DictGet(res, key, default) == IF key \in DOMAIN res THEN res[key] ELSE default

SentinelGeo == [country |-> "N/A", city |-> "N/A", org |-> "N/A"]

\* get_geo: raised = requests.get(...) or .json() raised
get_geo(raised, res) ==
    IF raised THEN SentinelGeo
    ELSE [country |-> DictGet(res, "country", "N/A"),
          city |-> DictGet(res, "city", "N/A"),
          org |-> DictGet(res, "org", "N/A")]

(* ---------------- state ---------------- *)

VARIABLES
    BLACKLIST_IPS,  \* configuration: deny list
    WHITELIST_IPS,  \* configuration: allow list
    dbFile,         \* DB_FILE: "absent" or "ready" (exists, with table logs)
    jsonLog,        \* JSON_LOG_FILE: the records appended, in order
    dbRows,         \* table logs: the rows inserted, in order
    console,        \* notices printed, in order
    conns,          \* per connection: ip, port, what the peer did, socket state
    backlog,        \* connections completed by the kernel, not yet accepted
    pc,             \* position of start_honeypot
    cur,            \* the connection client refers to, 0 when none
    addr,           \* local addr
    data,           \* local data
    geo,            \* local geo
    suspicious,     \* local suspicious
    log_entry,      \* local log_entry of log_event
    now,            \* wall clock, as the latest reading of datetime.datetime.now()
    lookup,         \* the HTTP request of get_geo: "idle", "waiting", "hung"
    jsonOwner,      \* history: which connection's handling appended jsonLog[i]
    dbOwner,        \* history: which connection's handling inserted dbRows[i]
    steps           \* history: per connection, the steps taken for it, in order

vars ==
    << BLACKLIST_IPS, WHITELIST_IPS, dbFile, jsonLog, dbRows, console, conns, backlog,
       pc, cur, addr, data, geo, suspicious, log_entry, now, lookup, jsonOwner,
       dbOwner, steps >>

config == << BLACKLIST_IPS, WHITELIST_IPS >>
sinks == << jsonLog, dbRows, jsonOwner, dbOwner >>
locals == << addr, data, geo, suspicious, log_entry >>

NoAddr == << "", 0 >>
NoGeo == [country |-> "", city |-> "", org |-> ""]
NoEntry ==
    [timestamp |-> 0, ip |-> "", port |-> 0, data |-> <<>>, geo |-> NoGeo,
     suspicious |-> FALSE]

Init ==
    /\ BLACKLIST_IPS \in SUBSET ListableIPs
    /\ WHITELIST_IPS \in SUBSET ListableIPs
    /\ dbFile \in {"absent", "ready"}
    /\ jsonLog = <<>>
    /\ dbRows = <<>>
    /\ console = <<>>
    /\ conns = [c \in Conns |-> [ip |-> "", port |-> 0, peer |-> NoPeer, sock |-> "none"]]
    /\ backlog = <<>>
    /\ pc = "start"
    /\ cur = 0
    /\ addr = NoAddr
    /\ data = <<>>
    /\ geo = NoGeo
    /\ suspicious = FALSE
    /\ log_entry = NoEntry
    /\ now = 0
    /\ lookup = "idle"
    /\ jsonOwner = <<>>
    /\ dbOwner = <<>>
    /\ steps = [c \in Conns |-> <<>>]

Did(c, label) == [steps EXCEPT ![c] = Append(@, label)]

(* ---------------- environment actions ---------------- *)

\* a peer completes the TCP handshake; connections are numbered in arrival
\* order.  What the peer does next is seen by the server only in recv, and is
\* drawn there.
Connect(c) ==
    /\ pc \notin {"start", "crashed"}
    /\ conns[c].sock = "none"
    /\ \A d \in Conns : d < c => conns[d].sock # "none"
    /\ \E ip \in IPs :
          conns' = [conns EXCEPT ![c] =
                       [ip |-> ip, port |-> EphemeralPort(c), peer |-> NoPeer,
                        sock |-> "pending"]]
    /\ backlog' = Append(backlog, c)
    /\ UNCHANGED << config, dbFile, sinks, console, pc, cur, locals, now, lookup, steps >>

(* ---------------- start_honeypot ---------------- *)

\* CREATE TABLE logs (...): sqlite raises when the table is already there
CreateTable(file) == IF file = "ready" THEN "error" ELSE "ready"

\* faulty variant: the table is created without looking whether DB_FILE exists
setup_db_Unguarded(file) == CreateTable(file)

\* setup_db: the table is created only when DB_FILE does not exist; the value
\* is the file afterwards, or "error" when the call raised
setup_db(file) == IF file = "absent" THEN CreateTable(file) ELSE file

\* setup_db(), then bind and listen; an error of either leaves start_honeypot
Start ==
    /\ pc = "start"
    /\ LET made == setup_db(dbFile) IN
          IF made = "error"
          THEN /\ dbFile' = dbFile
               /\ pc' = "crashed"
          ELSE /\ dbFile' = made
               /\ \E bound \in BOOLEAN : pc' = IF bound THEN "accept" ELSE "crashed"
    /\ UNCHANGED << config, sinks, console, conns, backlog, cur, locals, now, lookup,
                    steps >>

\* client, addr = server.accept()
Accept ==
    /\ pc = "accept"
    /\ backlog # <<>>
    /\ LET c == Head(backlog) IN
          /\ cur' = c
          /\ addr' = << conns[c].ip, conns[c].port >>
          /\ conns' = [conns EXCEPT ![c].sock = "accepted"]
          /\ steps' = Did(c, "accept")
    /\ backlog' = Tail(backlog)
    /\ pc' = "filter"
    /\ UNCHANGED << config, dbFile, sinks, console, data, geo, suspicious, log_entry,
                    now, lookup >>

\* server.accept() raises on an incoming connection (ECONNABORTED, EMFILE, ...):
\* nothing around the call catches it
AcceptFail ==
    /\ pc = "accept"
    /\ backlog # <<>>
    /\ pc' = "crashed"
    /\ UNCHANGED << config, dbFile, sinks, console, conns, backlog, cur, locals, now,
                    lookup, steps >>

\* faulty variant: the deny list is not consulted
AccessDecision_NoDenyCheck(ip) == IF ip \in WHITELIST_IPS THEN "Ignore" ELSE "Process"

\* faulty variant: the allow list is not consulted
AccessDecision_NoAllowCheck(ip) == IF ip \in BLACKLIST_IPS THEN "Deny" ELSE "Process"

\* faulty variant: the allow list is consulted first
AccessDecision_AllowFirst(ip) ==
    IF ip \in WHITELIST_IPS THEN "Ignore"
    ELSE IF ip \in BLACKLIST_IPS THEN "Deny"
    ELSE "Process"

\* the if / elif on addr[0]
AccessDecision(ip) ==
    IF ip \in BLACKLIST_IPS THEN "Deny"
    ELSE IF ip \in WHITELIST_IPS THEN "Ignore"
    ELSE "Process"

\* the locals are dead once the loop goes round; they are cleared here
BackToAccept ==
    /\ pc' = "accept"
    /\ cur' = 0
    /\ addr' = NoAddr
    /\ data' = <<>>
    /\ geo' = NoGeo
    /\ suspicious' = FALSE
    /\ log_entry' = NoEntry

\* client.close()
client_close(c) == [conns EXCEPT ![c].sock = "closed"]

Filter ==
    /\ pc = "filter"
    /\ LET d == AccessDecision(addr[1]) IN
          \/ /\ d = "Deny"
             /\ console' = Append(console, "BLOCKED")
             /\ conns' = client_close(cur)
             /\ steps' = [steps EXCEPT ![cur] = @ \o << "blocked", "close" >>]
             /\ BackToAccept
          \/ /\ d = "Ignore"
             /\ console' = Append(console, "IGNORED")
             /\ conns' = client_close(cur)
             /\ steps' = [steps EXCEPT ![cur] = @ \o << "ignored", "close" >>]
             /\ BackToAccept
          \/ /\ d = "Process"
             /\ pc' = "recv"
             /\ UNCHANGED << console, conns, steps, cur, locals >>
    /\ UNCHANGED << config, dbFile, sinks, backlog, now, lookup >>

\* data = client.recv(2048).decode(errors='ignore').strip()
Payload(sent) == Strip(Decode(Recv(sent, RECV_BUFSIZE)))

\* the socket has no timeout: recv returns when the peer sends or closes, raises
\* when the peer resets, and does not return while the peer does neither
Recv_ ==
    /\ pc = "recv"
    /\ conns[cur].peer = NoPeer
    /\ \E peer \in Peers :
          /\ conns' = [conns EXCEPT ![cur].peer = peer]
          /\ \/ /\ peer.kind \in {"send", "close"}
                /\ data' = Payload(peer.bytes)
                /\ pc' = "geo"
                /\ steps' = Did(cur, "recv")
             \/ /\ peer.kind = "reset"
                /\ data' = data
                /\ pc' = "except"
                /\ steps' = Did(cur, "recv_err")
             \/ /\ peer.kind = "stall"
                /\ data' = data
                /\ pc' = "recv"
                /\ steps' = Did(cur, "recv_wait")
    /\ UNCHANGED << config, dbFile, sinks, console, backlog, cur, addr, geo, suspicious,
                    log_entry, now, lookup >>

\* get_geo sends its HTTP request; requests.get is given no timeout, so a
\* directory that never answers holds the call for good
GeoRequest ==
    /\ pc = "geo"
    /\ \E answers \in BOOLEAN : lookup' = IF answers THEN "waiting" ELSE "hung"
    /\ pc' = "geo_wait"
    /\ steps' = Did(cur, "lookup")
    /\ UNCHANGED << config, dbFile, sinks, console, conns, backlog, cur, locals, now >>

\* the request ends: an exception, or a JSON body
GeoResponse ==
    /\ pc = "geo_wait"
    /\ lookup = "waiting"
    /\ \/ geo' = get_geo(TRUE, FailResp)
       \/ \E res \in Responses : geo' = get_geo(FALSE, res)
    /\ lookup' = "idle"
    /\ pc' = "classify"
    /\ steps' = Did(cur, "geo")
    /\ UNCHANGED << config, dbFile, sinks, console, conns, backlog, cur, addr, data,
                    suspicious, log_entry, now >>

\* faulty variant: a suspicious payload is answered before it is logged
Classify_ReplyFirst ==
    /\ pc = "classify"
    /\ suspicious' = is_suspicious(data)
    /\ pc' = IF suspicious' THEN "reply" ELSE "log_json"
    /\ steps' = Did(cur, IF suspicious' THEN "suspicious" ELSE "benign")
    /\ UNCHANGED << config, dbFile, sinks, console, conns, backlog, cur, addr, data,
                    geo, log_entry, now, lookup >>

\* suspicious = is_suspicious(data)
Classify ==
    /\ pc = "classify"
    /\ suspicious' = is_suspicious(data)
    /\ pc' = "log_json"
    /\ steps' = Did(cur, IF suspicious' THEN "suspicious" ELSE "benign")
    /\ UNCHANGED << config, dbFile, sinks, console, conns, backlog, cur, addr, data,
                    geo, log_entry, now, lookup >>

(* ---------------- log_event ---------------- *)

\* faulty variant: the payload is kept in a buffer shared with the event logged
\* before
LogEntry_SharedBuffer(t) ==
    [timestamp |-> t, ip |-> addr[1], port |-> addr[2],
     data |-> IF jsonLog = <<>> THEN data ELSE jsonLog[Len(jsonLog)].data,
     geo |-> geo, suspicious |-> suspicious]

\* log_entry, with the timestamp read at time t
LogEntry(t) ==
    [timestamp |-> t, ip |-> addr[1], port |-> addr[2], data |-> data, geo |-> geo,
     suspicious |-> suspicious]

\* faulty variant: the flag column is left at its default instead of int(suspicious)
DbRow_FlagDropped(id) ==
    [id |-> id, timestamp |-> log_entry.timestamp, ip |-> addr[1], port |-> addr[2],
     data |-> data, country |-> geo.country, city |-> geo.city, org |-> geo.org,
     suspicious |-> 0]

\* faulty variant: the row's timestamp is a second reading of the clock
DbRow_FreshTimestamp(id) ==
    [id |-> id, timestamp |-> now + 1, ip |-> addr[1], port |-> addr[2],
     data |-> data, country |-> geo.country, city |-> geo.city, org |-> geo.org,
     suspicious |-> IntOfBool(suspicious)]

\* the tuple given to INSERT INTO logs, with the id AUTOINCREMENT assigns
DbRow(id) ==
    [id |-> id, timestamp |-> log_entry.timestamp, ip |-> addr[1], port |-> addr[2],
     data |-> data, country |-> geo.country, city |-> geo.city, org |-> geo.org,
     suspicious |-> IntOfBool(suspicious)]

\* log_entry is built and appended to JSON_LOG_FILE; open or write may raise.
\* Two readings of the clock are a whole connection apart (accept, recv and
\* an HTTP request lie between them), so each reading is later than the last.
LogJson ==
    /\ pc = "log_json"
    /\ now' = now + 1
    /\ log_entry' = LogEntry(now')
    /\ \/ /\ jsonLog' = Append(jsonLog, log_entry')
          /\ jsonOwner' = Append(jsonOwner, cur)
          /\ pc' = "log_db"
          /\ steps' = Did(cur, "json")
       \/ /\ UNCHANGED << jsonLog, jsonOwner >>
          /\ pc' = "except"
          /\ steps' = Did(cur, "json_err")
    /\ UNCHANGED << config, dbFile, dbRows, dbOwner, console, conns, backlog, cur, addr,
                    data, geo, suspicious, lookup >>

\* connect, INSERT, commit; any of them may raise
LogDb ==
    /\ pc = "log_db"
    /\ \/ /\ dbFile = "ready"
          /\ dbRows' = Append(dbRows, DbRow(Len(dbRows) + 1))
          /\ dbOwner' = Append(dbOwner, cur)
          /\ pc' = "report"
          /\ steps' = Did(cur, "db")
       \/ /\ UNCHANGED << dbRows, dbOwner >>
          /\ pc' = "except"
          /\ steps' = Did(cur, "db_err")
    /\ UNCHANGED << config, dbFile, jsonLog, jsonOwner, console, conns, backlog, cur,
                    locals, now, lookup >>

(* ---------------- the rest of the try block ---------------- *)

\* the [NEW] lines, and the warning when suspicious
Report ==
    /\ pc = "report"
    /\ console' = console \o (IF suspicious THEN << "NEW", "SUSPICIOUS" >> ELSE << "NEW" >>)
    /\ pc' = IF suspicious THEN "reply" ELSE "close"
    /\ steps' = Did(cur, "new")
    /\ UNCHANGED << config, dbFile, sinks, conns, backlog, cur, locals, now, lookup >>

\* send_fake_response: a failing send is swallowed
send_fake_response ==
    /\ pc = "reply"
    /\ \/ steps' = Did(cur, "send")
       \/ steps' = Did(cur, "send_err")
    /\ pc' = "close"
    /\ UNCHANGED << config, dbFile, sinks, console, conns, backlog, cur, locals, now,
                    lookup >>

\* faulty variant: the handler swallows the exception (except: pass)
Except_Silent ==
    /\ pc = "except"
    /\ pc' = "close"
    /\ UNCHANGED << config, dbFile, sinks, console, conns, backlog, cur, locals, now,
                    lookup, steps >>

\* faulty variant: no except clause, so the exception leaves the loop once the
\* finally clause has closed the socket
Except_Reraise ==
    /\ pc = "except"
    /\ conns' = client_close(cur)
    /\ steps' = Did(cur, "close")
    /\ pc' = "crashed"
    /\ UNCHANGED << config, dbFile, sinks, console, backlog, cur, locals, now, lookup >>

\* except Exception as e: print [ERROR]
Except ==
    /\ pc = "except"
    /\ console' = Append(console, "ERROR")
    /\ pc' = "close"
    /\ steps' = Did(cur, "error")
    /\ UNCHANGED << config, dbFile, sinks, conns, backlog, cur, locals, now, lookup >>

\* faulty variant: the loop goes round with no finally clause closing the socket
Finally_NoClose ==
    /\ pc = "close"
    /\ BackToAccept
    /\ UNCHANGED << config, dbFile, sinks, console, conns, backlog, now, lookup, steps >>

\* finally: client.close(), and round the loop
Finally ==
    /\ pc = "close"
    /\ conns' = client_close(cur)
    /\ steps' = Did(cur, "close")
    /\ BackToAccept
    /\ UNCHANGED << config, dbFile, sinks, console, backlog, now, lookup >>

(* ---------------- specification ---------------- *)

Server ==
    \/ Start
    \/ Accept
    \/ Filter
    \/ Recv_
    \/ GeoRequest
    \/ GeoResponse
    \/ Classify
    \/ LogJson
    \/ LogDb
    \/ Report
    \/ send_fake_response
    \/ Except
    \/ Finally

Next ==
    \/ \E c \in Conns : Connect(c)
    \/ AcceptFail
    \/ Server

Spec == Init /\ [][Next]_vars

\* the interpreter keeps running start_honeypot: a step it can take is taken
FairSpec == Spec /\ WF_vars(Server)

(* ---------------- vocabulary of the properties ---------------- *)

Has(c, label) == \E i \in DOMAIN steps[c] : steps[c][i] = label

Accepted(c) == conns[c].sock \in {"accepted", "closed"}

\* the server has accepted c and has gone round the loop since
Finished(c) == Has(c, "accept") /\ cur # c

Denied(c) == Accepted(c) /\ conns[c].ip \in BLACKLIST_IPS
Allowed(c) == Accepted(c) /\ conns[c].ip \in WHITELIST_IPS
Processed(c) == Accepted(c) /\ conns[c].ip \notin (BLACKLIST_IPS \cup WHITELIST_IPS)

\* the records the handling of c put in each sink
JsonBy(c) == { i \in DOMAIN jsonLog : jsonOwner[i] = c }
DbBy(c) == { i \in DOMAIN dbRows : dbOwner[i] = c }

\* a read, open, write or insert raised while c was handled
Faulted(c) == Has(c, "recv_err") \/ Has(c, "json_err") \/ Has(c, "db_err")

\* send_fake_response was called for c
ReplySent(c) == Has(c, "send") \/ Has(c, "send_err")

\* label a comes before label b in the steps of c
Before(c, a, b) ==
    \E i, j \in DOMAIN steps[c] : i < j /\ steps[c][i] = a /\ steps[c][j] = b

(* ---------------- C1 ---------------- *)

\* C1: a client that connects and stalls cannot keep later clients from being
\* accepted: every pending connection is eventually accepted, unless accept
\* itself failed or the geolocation directory hangs.
C1_StalledClientDoesNotStarve ==
    \A c \in Conns :
        (conns[c].sock = "pending") ~> (Accepted(c) \/ pc = "crashed" \/ lookup = "hung")

(* ---------------- C2 ---------------- *)

\* C2: a processed connection handled without a fault leaves exactly one JSON
\* record and exactly one row, and they agree on ip, port and suspicious
\* (the row holds int(suspicious)).
C2_OneMatchingRecordPerSink ==
    \A c \in Conns :
        (Finished(c) /\ Processed(c) /\ ~Faulted(c)) =>
            /\ Cardinality(JsonBy(c)) = 1
            /\ Cardinality(DbBy(c)) = 1
            /\ \A i \in JsonBy(c), j \in DbBy(c) :
                  /\ jsonLog[i].ip = conns[c].ip
                  /\ dbRows[j].ip = conns[c].ip
                  /\ jsonLog[i].port = conns[c].port
                  /\ dbRows[j].port = conns[c].port
                  /\ dbRows[j].suspicious = IntOfBool(jsonLog[i].suspicious)
                  /\ jsonLog[i].suspicious = Has(c, "suspicious")

C2_Witness ==
    \E c, d \in Conns :
        /\ c # d
        /\ Finished(c) /\ Processed(c) /\ ~Faulted(c) /\ Has(c, "suspicious")
        /\ Finished(d) /\ Processed(d) /\ ~Faulted(d) /\ Has(d, "benign")
        /\ conns[c].ip # conns[d].ip

(* ---------------- C3 ---------------- *)

\* C3: a processed connection that is finished either has exactly one event in
\* both sinks or had an [ERROR] notice printed for it.
C3_NoSilentLoss ==
    \A c \in Conns :
        (Finished(c) /\ Processed(c)) =>
            \/ Cardinality(JsonBy(c)) = 1 /\ Cardinality(DbBy(c)) = 1
            \/ Has(c, "error")

C3_Witness ==
    \E c \in Conns :
        /\ Finished(c) /\ Processed(c)
        /\ JsonBy(c) = {} /\ DbBy(c) = {}
        /\ Has(c, "error")
        /\ \E i \in DOMAIN console : console[i] = "ERROR"

(* ---------------- C4 ---------------- *)

\* C4: both sink writes are attempted for every event: when the JSON write
\* fails the insert is still attempted, and when the insert fails the JSON
\* record stays.
C4_BothSinksAttempted ==
    \A c \in Conns :
        Finished(c) =>
            /\ Has(c, "json_err") => (Has(c, "db") \/ Has(c, "db_err"))
            /\ Has(c, "db_err") => (Has(c, "json") /\ Cardinality(JsonBy(c)) = 1)

(* ---------------- C5 ---------------- *)

\* C5: a connection from a deny-listed IP puts nothing in either sink, and is
\* closed once the server has dealt with it.
C5_DeniedNotPersistedAndClosed ==
    \A c \in Conns :
        Denied(c) =>
            /\ JsonBy(c) = {}
            /\ DbBy(c) = {}
            /\ Finished(c) => conns[c].sock = "closed"

C5_Witness ==
    \E c, d \in Conns :
        /\ Denied(c) /\ Finished(c) /\ Has(c, "blocked")
        /\ Processed(d) /\ Finished(d) /\ JsonBy(d) # {} /\ DbBy(d) # {}

(* ---------------- C6 ---------------- *)

\* C6: a connection from an allow-listed IP puts nothing in either sink and is
\* never sent the reply.
C6_AllowedNotPersistedNoReply ==
    \A c \in Conns :
        Allowed(c) =>
            /\ JsonBy(c) = {}
            /\ DbBy(c) = {}
            /\ ~ReplySent(c)

C6_Witness ==
    \E c, d \in Conns :
        /\ Allowed(c) /\ ~Denied(c) /\ Finished(c) /\ Has(c, "ignored")
        /\ conns[c].sock = "closed"
        /\ Processed(d) /\ Finished(d) /\ ReplySent(d)

(* ---------------- C7 ---------------- *)

\* C7: an IP in both lists is denied: its connection takes the blocked path
\* and never the ignored path.
C7_DenyTakesPrecedence ==
    \A c \in Conns :
        (Denied(c) /\ Allowed(c)) =>
            /\ ~Has(c, "ignored")
            /\ Finished(c) => (Has(c, "blocked") /\ Before(c, "blocked", "close"))

C7_Witness ==
    \E c \in Conns :
        /\ Denied(c) /\ Allowed(c) /\ Finished(c)
        /\ Has(c, "blocked")
        /\ console # <<>> /\ console[Len(console)] = "BLOCKED"

(* ---------------- C8 ---------------- *)

\* C8: the reply is sent exactly when the payload is classified suspicious:
\* a finished processed connection whose payload was classified suspicious was
\* sent the reply before its socket was closed, and one whose payload was not
\* was sent nothing.
C8_ReplyIffSuspicious ==
    \A c \in Conns :
        (Finished(c) /\ Processed(c)) =>
            /\ Has(c, "suspicious") =>
                  (Before(c, "send", "close") \/ Before(c, "send_err", "close"))
            /\ Has(c, "benign") => ~ReplySent(c)

(* ---------------- C9 ---------------- *)

\* C9: when the read of a processed connection is reset (or times out) the
\* handler still classifies the payload read so far and persists one event.
C9_ReadErrorStillPersists ==
    \A c \in Conns :
        (Finished(c) /\ Processed(c) /\ Has(c, "recv_err")) =>
            /\ Has(c, "suspicious") \/ Has(c, "benign")
            /\ Cardinality(JsonBy(c)) = 1
            /\ Cardinality(DbBy(c)) = 1

(* ---------------- C10 ---------------- *)

\* C10: once the server has gone round the loop, the socket it accepted is
\* closed, whichever path the handling took.
C10_SocketClosedOnEveryPath ==
    \A c \in Conns : Finished(c) => (conns[c].sock = "closed" /\ Has(c, "close"))

C10_Witness ==
    \E c, d \in Conns :
        /\ Finished(c) /\ Has(c, "error") /\ conns[c].sock = "closed"
        /\ Finished(d) /\ ~Processed(d) /\ conns[d].sock = "closed"

(* ---------------- C11 ---------------- *)

C12_AcceptFailureKeepsListening ==
    [][pc = "accept" => pc' \in {"accept", "filter"}]_vars

(* ---------------- C13 ---------------- *)

\* C13: the triple get_geo returns has no empty field, whatever the lookup did,
\* and so has the geo of every record written.
C13_GeoNeverEmpty ==
    /\ (cur # 0 /\ Has(cur, "geo")) =>
          (geo.country # "" /\ geo.city # "" /\ geo.org # "")
    /\ \A i \in DOMAIN jsonLog :
          /\ jsonLog[i].geo.country # ""
          /\ jsonLog[i].geo.city # ""
          /\ jsonLog[i].geo.org # ""
    /\ get_geo(TRUE, FailResp) = SentinelGeo

(* ---------------- C14 ---------------- *)

\* C14: a directory that never answers cannot hold the pipeline: the lookup
\* ends, and the connection it was made for is eventually finished.
C14_HungLookupEndsByTimeout ==
    \A c \in Conns : (cur = c /\ lookup = "hung") ~> Finished(c)

(* ---------------- C15 ---------------- *)

\* C15: no cross-talk: every record in either sink carries the payload and the
\* address of the connection whose handling wrote it, and when all clients
\* sent a payload and none met a fault the table holds one row per client.
C15_NoCrossTalk ==
    /\ \A i \in DOMAIN jsonLog :
          LET c == jsonOwner[i] IN
             /\ jsonLog[i].data = Payload(conns[c].peer.bytes)
             /\ jsonLog[i].ip = conns[c].ip
             /\ jsonLog[i].port = conns[c].port
    /\ \A j \in DOMAIN dbRows :
          LET c == dbOwner[j] IN
             /\ dbRows[j].data = Payload(conns[c].peer.bytes)
             /\ dbRows[j].ip = conns[c].ip
             /\ dbRows[j].port = conns[c].port
    /\ (\A c \in Conns : Finished(c) /\ Processed(c) /\ ~Faulted(c))
          => (Len(dbRows) = NumConns /\ \A c \in Conns : Cardinality(DbBy(c)) = 1)

\* every client sent a payload of its own and all have been handled.  When a
\* client connected leaves no trace in the state, so this is also the state
\* that ends the run in which all of them connected before the first accept.
C15_Witness ==
    /\ \A c \in Conns : Accepted(c) /\ Processed(c) /\ conns[c].peer.kind = "send"
    /\ \A c, d \in Conns : c # d => conns[c].peer.bytes # conns[d].peer.bytes
    /\ \A c \in Conns : Finished(c) /\ ~Faulted(c)
    /\ Len(dbRows) = NumConns

(* ---------------- C16 ---------------- *)

OtherStepsInOrder(c) ==
    /\ Has(c, "recv") => Before(c, "accept", "recv")
    /\ Has(c, "lookup") => Before(c, "recv", "lookup")
    /\ (Has(c, "json") \/ Has(c, "json_err")) =>
          (Before(c, "suspicious", "json") \/ Before(c, "benign", "json")
             \/ Before(c, "suspicious", "json_err") \/ Before(c, "benign", "json_err"))
    /\ (Has(c, "db") \/ Has(c, "db_err")) =>
          (Before(c, "json", "db") \/ Before(c, "json", "db_err"))
    /\ ReplySent(c) => (Before(c, "db", "send") \/ Before(c, "db", "send_err"))

C18_EmptyPayloadNotSuspicious ==
    \A c \in Conns :
        (Processed(c) /\ Has(c, "recv") /\ Payload(conns[c].peer.bytes) = <<>>) =>
            /\ ~Has(c, "suspicious")
            /\ ~ReplySent(c)
            /\ \A i \in JsonBy(c) : jsonLog[i].data = <<>> /\ ~jsonLog[i].suspicious
            /\ \A j \in DbBy(c) : dbRows[j].suspicious = 0
            /\ (Finished(c) /\ ~Faulted(c)) =>
                  (Cardinality(JsonBy(c)) = 1 /\ Cardinality(DbBy(c)) = 1)

C18_Witness ==
    \E c, d \in Conns :
        /\ c # d
        /\ Processed(c) /\ Finished(c) /\ ~Faulted(c)
        /\ conns[c].peer.kind = "close"
        /\ Processed(d) /\ Finished(d) /\ ~Faulted(d)
        /\ conns[d].peer.kind = "send" /\ conns[d].peer.bytes # <<>>
        /\ Payload(conns[d].peer.bytes) = <<>>

(* ---------------- C19 ---------------- *)

\* C19: every row of the table has a JSON record with its timestamp, ip, port
\* and flag, and the table never has more rows than the log has records.
C19_RowsHaveJsonRecords ==
    /\ Len(dbRows) <= Len(jsonLog)
    /\ \A j \in DOMAIN dbRows :
          \E i \in DOMAIN jsonLog :
              /\ jsonLog[i].timestamp = dbRows[j].timestamp
              /\ jsonLog[i].ip = dbRows[j].ip
              /\ jsonLog[i].port = dbRows[j].port
              /\ IntOfBool(jsonLog[i].suspicious) = dbRows[j].suspicious

C19_Witness ==
    /\ Len(dbRows) = 1
    /\ Len(jsonLog) = 2
    /\ \E c \in Conns : Finished(c) /\ Has(c, "db_err")
    /\ dbRows[1].timestamp = 2

(* ---------------- C20 ---------------- *)

\* C20: while the current connection is from a listed IP no step reads from
\* it, starts a lookup or touches the JSON log, the table or the clock.
C20_FilteredConnectionFrame ==
    [][(cur # 0 /\ addr[1] \in (BLACKLIST_IPS \cup WHITELIST_IPS)) =>
          UNCHANGED << jsonLog, dbRows, jsonOwner, dbOwner, dbFile, now, lookup, data,
                       geo, suspicious, log_entry >>]_vars

C20_Witness ==
    \E c, d \in Conns :
        /\ c < d
        /\ Processed(c) /\ Finished(c) /\ JsonBy(c) # {} /\ DbBy(c) # {}
        /\ Allowed(d) /\ ~Denied(d) /\ Finished(d)
        /\ steps[d] = << "accept", "ignored", "close" >>
        /\ Len(jsonLog) = 1 /\ Len(dbRows) = 1

====
